---- MODULE Spec2Model ----
(***************************************************************************)
(* The Lighthill-Whitham-Richards macroscopic traffic model of             *)
(* flow/core/macroscopic/lwr.py (class LWR): construction with its         *)
(* configuration assertions, reset(), step(), and the pure functions       *)
(* speed_info, godunov_flux and ibvp.                                      *)
(*                                                                         *)
(* Numbers.  The program computes on Python/numpy floats.  The model       *)
(* computes on exact rationals <<n, d>> (d > 0, lowest terms), so every    *)
(* equality below is an equality of real numbers; a step is followed only  *)
(* while the denominators of its inputs are at most MaxDen and the         *)
(* numerators of its result at most MaxNum.                                *)
(* None is the empty tuple for number- and array-valued attributes and     *)
(* NoneSteps for the step counter.                                         *)
(***************************************************************************)
EXTENDS Integers, Sequences, FiniteSets, TLC

VARIABLES
    params,          \* the dict handed to LWR(params)
    alive,           \* "unconstructed" | "constructed" | "rejected"
    attrs,           \* attributes set once by __init__ (None before)
    v_max,           \* self.v_max
    obs,             \* self.obs
    num_steps,       \* self.num_steps
    boundary_left,   \* self.boundary_left
    boundary_right,  \* self.boundary_right
    speeds,          \* self.speeds
    ret,             \* what the last call returned (or raised)
    calls,           \* history: step() calls that returned since the last reset()
    resets,          \* history: reset() calls in a row, counted up to MaxResets
    given,           \* history: the rl_actions of the last step() that returned
    acted,           \* history: an action changed v_max since the last reset()
    aliased,         \* the array the caller holds is the object self.obs
    held             \* the array the caller holds, as it is now

vars == <<params, alive, attrs, v_max, obs, num_steps,
          boundary_left, boundary_right, speeds, ret, calls, resets,
          given, acted, aliased, held>>

-----------------------------------------------------------------------------
(* Bounds of the model *)

\* initial_conditions and length range over 1..MaxCells cells
MaxCells == 4
\* step() is followed while num_steps < MaxSteps
MaxSteps == 3
\* step() is followed while the denominators of its inputs are <= MaxDen
MaxDen == 5
\* and while the numerators of the densities it returns are <= MaxNum
MaxNum == 400
\* reset() calls in a row are told apart up to MaxResets
MaxResets == 2
\* densities of [0, rho_max] are sampled at the multiples of rho_max/GridSteps
GridSteps == 8

-----------------------------------------------------------------------------
(* Exact rational arithmetic standing for the float arithmetic *)

None == <<>>
NoneSteps == -1

Abs(x) == IF x < 0 THEN 0 - x ELSE x

RECURSIVE GCD(_, _)
GCD(a, b) == IF b = 0 THEN a ELSE GCD(b, a % b)

\* n/d over the common divisor g of n and d, for d > 0
Reduced(n, d, g) == <<n \div g, d \div g>>

Norm(n, d) ==
    IF d < 0 THEN Reduced(0 - n, 0 - d, GCD(Abs(n), 0 - d))
    ELSE Reduced(n, d, GCD(Abs(n), d))

Rat(n, d) == Norm(n, d)
R(n) == <<n, 1>>

\* a + b over the common divisor g of the two denominators
SumOver(a, b, g) ==
    Norm(a[1] * (b[2] \div g) + b[1] * (a[2] \div g), (a[2] \div g) * b[2])

RAdd(a, b) == SumOver(a, b, GCD(a[2], b[2]))

RNeg(a) == <<0 - a[1], a[2]>>
RSub(a, b) == RAdd(a, RNeg(b))

\* a * b with g1 cancelled between a[1] and b[2], g2 between b[1] and a[2]:
\* the product of two fractions in lowest terms is then in lowest terms
ProductOver(a, b, g1, g2) ==
    <<(a[1] \div g1) * (b[1] \div g2), (a[2] \div g2) * (b[2] \div g1)>>

RMul(a, b) == ProductOver(a, b, GCD(Abs(a[1]), b[2]), GCD(Abs(b[1]), a[2]))

\* b # 0
RDiv(a, b) == RMul(a, Norm(b[2], b[1]))

RIsZero(a) == a[1] = 0
\* the denominators are positive
RLt(a, b) == a[1] * b[2] < b[1] * a[2]
RLe(a, b) == a[1] * b[2] <= b[1] * a[2]
RMin(a, b) == IF RLe(a, b) THEN a ELSE b

\* float.is_integer()
IsInteger(a) == a[2] = 1
\* int(x): truncation toward zero
PyInt(a) == IF a[1] >= 0 THEN a[1] \div a[2] ELSE 0 - ((0 - a[1]) \div a[2])

RECURSIVE RSum(_)
RSum(s) == IF s = <<>> THEN R(0) ELSE RAdd(Head(s), RSum(Tail(s)))

\* np.mean
Mean(s) == RDiv(RSum(s), R(Len(s)))

\* a[i] with Python's index rule: a negative index counts from the end
\* (0-based i, 1-based sequence)
PyIndex(a, i) == IF i < 0 THEN a[Len(a) + i + 1] ELSE a[i + 1]

\* a[lo:hi] for 0 <= lo
PySlice(a, lo, hi) ==
    LET h == IF hi > Len(a) THEN Len(a) ELSE hi
    IN  IF h <= lo THEN <<>> ELSE SubSeq(a, lo + 1, h)

-----------------------------------------------------------------------------
(* The pure functions of the class *)

\* a speed clamped at 0 for densities above rho_max
GreenshieldsClamped(density, vmax, rho_max) ==
    IF RLt(rho_max, density) THEN R(0)
    ELSE RMul(vmax, RSub(R(1), RDiv(density, rho_max)))

\* a speed with the division by rho_max outside the bracket
GreenshieldsUnbracketed(density, vmax, rho_max) ==
    RDiv(RMul(vmax, RSub(R(1), density)), rho_max)

\* numpy evaluates an array expression once, when it is assigned: the
\* sequence is built here rather than at each of its uses
Array(q) == SubSeq(q, 1, Len(q))

\* speed_info: v_max * ((1 - density / rho_max) ** lam), lam = 1
Greenshields(density, vmax, rho_max) ==
    RMul(vmax, RSub(R(1), RDiv(density, rho_max)))

speed_info(density, vmax, rho_max) ==
    Array([i \in 1..Len(density) |-> Greenshields(density[i], vmax, rho_max)])

\* rho * v(rho), the flow of the fundamental diagram
Flow(x, vmax, rho_max) == RMul(x, Greenshields(x, vmax, rho_max))

\* demand: rho * v * (rho < rho_critical) + q_max * (rho >= rho_critical)
Demand(rho_t, q_max, vmax, rho_max, rho_critical) ==
    Array([i \in 1..Len(rho_t) |->
        IF RLt(rho_t[i], rho_critical)
        THEN Flow(rho_t[i], vmax, rho_max) ELSE q_max])

\* a supply that is q_max whatever the density
SupplyUncongested(rho_t, q_max, vmax, rho_max, rho_critical) ==
    Array([i \in 1..Len(rho_t) |-> q_max])

\* supply: rho * v * (rho > rho_critical) + q_max * (rho <= rho_critical)
Supply(rho_t, q_max, vmax, rho_max, rho_critical) ==
    Array([i \in 1..Len(rho_t) |->
        IF RLt(rho_critical, rho_t[i])
        THEN Flow(rho_t[i], vmax, rho_max) ELSE q_max])

\* a supply left at its own cell
NoShift(s) == s

\* a shifted supply whose last entry is 0 instead of the repeated edge value
ShiftLeftOntoWall(s) == Append(Tail(s), R(0))

\* np.append(s[1:], s[len(s) - 1])
ShiftLeft(s) == Append(Tail(s), s[Len(s)])

\* np.minimum(d, s)
Minimum(d, s) == Array([i \in 1..Len(d) |-> RMin(d[i], s[i])])

\* godunov_flux(rho_t) under the speed limit vmax
godunov_flux(rho_t, vmax, rho_max, rho_critical) ==
    Minimum(
        Demand(rho_t, Flow(rho_critical, vmax, rho_max),
               vmax, rho_max, rho_critical),
        ShiftLeft(Supply(rho_t, Flow(rho_critical, vmax, rho_max),
                         vmax, rho_max, rho_critical)))

\* an fm that takes no flux to enter the leftmost cell
ShiftRightFromZero(f) == <<R(0)>> \o PySlice(f, 0, Len(f) - 1)

\* fm = np.insert(f[0:len(f) - 1], 0, f[0])
ShiftRight(f) == <<f[1]>> \o PySlice(f, 0, Len(f) - 1)

\* an update with the sign of the flux difference turned round
DifferenceReversed(rho_t, step, f, fm) ==
    Array([i \in 1..Len(rho_t) |->
              RAdd(rho_t[i], RMul(step, RSub(f[i], fm[i])))])

\* rho_t - step * (f - fm)
Difference(rho_t, step, f, fm) ==
    Array([i \in 1..Len(rho_t) |-> RSub(rho_t[i], RMul(step, RSub(f[i], fm[i])))])

Godunov(rho_t, step, f) == Difference(rho_t, step, f, ShiftRight(f))

\* the flux update of ibvp, before any boundary rule
FluxUpdate(rho_t, vmax, a) ==
    Godunov(rho_t, RDiv(a.dt, a.dx),
            godunov_flux(rho_t, vmax, a.rho_max, a.rho_critical))

\* np.insert(np.append(rho_t[1:len(rho_t) - 1], right), 0, left)
Rewrap(rho_t, left, right) ==
    <<left>> \o Append(PySlice(rho_t, 1, Len(rho_t) - 1), right)

IsLoop(b) == b.type = "str" /\ b.name = "loop"
IsExtend(b) == b.type = "str" /\ b.name = "extend_both"
IsConstant(b) == b.type = "dict" /\ b.name = "constant_both"

Bounded(rho, left, right) == [rho |-> rho, left |-> left, right |-> right]

\* a loop rule reading its caches after the update
LoopRuleAfterUpdate(rho_t, upd) ==
    Bounded(Rewrap(upd, PyIndex(upd, Len(upd) - 1),
                        PyIndex(upd, Len(upd) - 2)),
            PyIndex(upd, Len(upd) - 1),
            PyIndex(upd, Len(upd) - 2))

\* "loop": the caches are read from the pre-update array rho_t
LoopRule(rho_t, upd) ==
    Bounded(Rewrap(upd, PyIndex(rho_t, Len(rho_t) - 1),
                        PyIndex(rho_t, Len(rho_t) - 2)),
            PyIndex(rho_t, Len(rho_t) - 1),
            PyIndex(rho_t, Len(rho_t) - 2))

\* an extend rule taking its right cache one cell short of the edge
ExtendRuleOffByOne(upd) ==
    Bounded(Rewrap(upd, upd[1], PyIndex(upd, Len(upd) - 2)),
            upd[1], PyIndex(upd, Len(upd) - 2))

\* "extend_both": the caches are read from the updated array
ExtendRule(upd) ==
    Bounded(Rewrap(upd, upd[1], PyIndex(upd, Len(upd) - 1)),
            upd[1], PyIndex(upd, Len(upd) - 1))

\* a constant rule that sets the caches and forgets to rewrite the array
ConstantRuleNoRewrite(b, upd) ==
    Bounded(upd, b.vals[1], b.vals[2])

\* {"constant_both": (L, R)}: the caches are read from the configuration
ConstantRule(b, upd) ==
    Bounded(Rewrap(upd, b.vals[1], b.vals[2]), b.vals[1], b.vals[2])

\* boundary rules that fall back on "extend_both" for a policy they do not
\* know
ApplyBoundaryOrExtend(b, rho_t, upd, bl, br) ==
    IF IsLoop(b) THEN LoopRule(rho_t, upd)
    ELSE IF IsConstant(b) THEN ConstantRule(b, upd)
    ELSE ExtendRule(upd)

\* boundary rules whose "loop" branch wraps with the caches an earlier call
\* left, once there are any, and refreshes them afterwards
ApplyBoundaryFromCaches(b, rho_t, upd, bl, br) ==
    IF IsLoop(b) /\ bl # None /\ br # None
        THEN Bounded(Rewrap(upd, bl, br),
                     PyIndex(rho_t, Len(rho_t) - 1),
                     PyIndex(rho_t, Len(rho_t) - 2))
    ELSE IF IsLoop(b) THEN LoopRule(rho_t, upd)
    ELSE IF IsExtend(b) THEN ExtendRule(upd)
    ELSE IF IsConstant(b) THEN ConstantRule(b, upd)
    ELSE Bounded(upd, bl, br)

\* the boundary rules of ibvp on the pre-update array rho_t and the updated
\* array upd: the returned array and the two boundary caches after the call
ApplyBoundary(b, rho_t, upd, bl, br) ==
    IF IsLoop(b) THEN LoopRule(rho_t, upd)
    ELSE IF IsExtend(b) THEN ExtendRule(upd)
    ELSE IF IsConstant(b) THEN ConstantRule(b, upd)
    ELSE Bounded(upd, bl, br)

ibvp(rho_t, vmax, a, bl, br) ==
    ApplyBoundary(a.boundaries, rho_t, FluxUpdate(rho_t, vmax, a), bl, br)

-----------------------------------------------------------------------------
(* Configurations handed to the constructor *)

\* initial_conditions patterns of n cells
UniformField(n) == [i \in 1..n |-> R(1)]
FifthsRamp(n) == [i \in 1..n |-> Rat(i, 5)]
MixedField(n) == [i \in 1..n |-> R((3 * (i - 1)) % 5)]
DenseField(n) == [i \in 1..n |-> R(IF i = 1 THEN 5 ELSE 2)]

InitialConditions ==
    UNION {{UniformField(n), FifthsRamp(n), MixedField(n), DenseField(n)} :
           n \in 1..MaxCells}

BoundaryConditions ==
    { [type |-> "str",  name |-> "loop",          vals |-> <<>>],
      [type |-> "str",  name |-> "extend_both",   vals |-> <<>>],
      [type |-> "dict", name |-> "constant_both", vals |-> <<R(1), R(2)>>],
      [type |-> "str",  name |-> "reflect",       vals |-> <<>>],
      [type |-> "dict", name |-> "constant_left", vals |-> <<R(1), R(2)>>] }

Configurations ==
    [ length             : {R(n) : n \in 1..MaxCells},
      dx                 : {R(1), R(2)},
      rho_max            : {R(4), R(5)},
      rho_max_max        : {R(4)},
      v_max              : {R(0), Rat(1, 2), R(1), R(2)},
      v_max_max          : {R(1)},
      CFL                : {R(1), R(2)},
      total_time         : {R(2), R(3)},
      dt                 : {R(1), R(2)},
      initial_conditions : InitialConditions,
      boundary_conditions: BoundaryConditions ]

\* rl_actions: None or a new speed limit of the action space [0, v_max_max]
Actions == {None, R(0), R(1)}
-----------------------------------------------------------------------------
(* __init__ *)

\* a constructor without the CFL assertion
CFLAssertionSkipped(p) == TRUE

\* a CFL assertion that excludes the bound itself
CFLAssertionStrict(p) == RLt(p.dt, RDiv(RMul(p.CFL, p.dx), p.v_max))

\* assert dt <= CFL * dx / v_max
CFLAssertion(p) == RLe(p.dt, RDiv(RMul(p.CFL, p.dx), p.v_max))

\* a size assertion that accepts a list longer than the road
SizeAssertionAtLeast(p) ==
    Len(p.initial_conditions) >= PyInt(RDiv(p.length, p.dx))

\* assert len(initial_conditions) == int(length / dx)
SizeAssertion(p) ==
    Len(p.initial_conditions) = PyInt(RDiv(p.length, p.dx))

\* the assertions of __init__, in order; "ok" when all pass.  A division by
\* zero raises ZeroDivisionError at the assertion that divides.
Validate(p) ==
    IF RIsZero(p.dx) THEN "ZeroDivisionError"
    ELSE IF ~IsInteger(RDiv(p.length, p.dx)) THEN "AssertionError"
    ELSE IF RIsZero(p.dt) THEN "ZeroDivisionError"
    ELSE IF ~IsInteger(RDiv(p.total_time, p.dt)) THEN "AssertionError"
    ELSE IF ~RLe(p.rho_max, p.rho_max_max) THEN "AssertionError"
    ELSE IF ~RLe(p.v_max, p.v_max_max) THEN "AssertionError"
    ELSE IF ~(RLe(R(0), p.CFL) /\ RLe(p.CFL, R(1))) THEN "AssertionError"
    ELSE IF RIsZero(p.v_max) THEN "ZeroDivisionError"
    ELSE IF ~CFLAssertion(p) THEN "AssertionError"
    ELSE IF ~SizeAssertion(p) THEN "AssertionError"
    ELSE "ok"

\* the attributes __init__ assigns and no other method assigns
InitAttrs(p) ==
    [ params             |-> p,
      length             |-> p.length,
      dx                 |-> p.dx,
      rho_max            |-> p.rho_max,
      rho_max_max        |-> p.rho_max_max,
      v_max_max          |-> p.v_max_max,
      CFL                |-> p.CFL,
      total_time         |-> p.total_time,
      dt                 |-> p.dt,
      horizon            |-> PyInt(RDiv(p.total_time, p.dt)),
      initial_conditions |-> p.initial_conditions,
      boundaries         |-> p.boundary_conditions,
      lam                |-> 1,
      rho_critical       |-> RDiv(p.rho_max, R(2)) ]

Returned(op, o, rew, done, err) ==
    [op |-> op, obs |-> o, rew |-> rew, done |-> done, err |-> err]

\* a return of self.obs itself: the caller holds the model's own array
View(o) == [array |-> o, same |-> TRUE]

\* self.obs.copy(): the caller is handed a new array of the same values
Copy(o) == [array |-> o, same |-> FALSE]

Init ==
    /\ params \in Configurations
    /\ alive = "unconstructed"
    /\ attrs = None
    /\ v_max = None
    /\ obs = None
    /\ num_steps = NoneSteps
    /\ boundary_left = None
    /\ boundary_right = None
    /\ speeds = None
    /\ ret = Returned("none", None, None, FALSE, "none")
    /\ calls = 0
    /\ resets = 0
    /\ given = None
    /\ acted = FALSE
    /\ aliased = FALSE
    /\ held = None

\* LWR(params) with a configuration that passes every assertion
Construct ==
    /\ alive = "unconstructed"
    /\ Validate(params) = "ok"
    /\ alive' = "constructed"
    /\ attrs' = InitAttrs(params)
    /\ v_max' = params.v_max
    /\ ret' = Returned("init", None, None, FALSE, "none")
    /\ UNCHANGED <<params, obs, num_steps, boundary_left, boundary_right,
                   speeds, calls, resets, given, acted,
                   aliased, held>>

\* LWR(params) raising at an assertion: no attribute has been assigned
ConstructFails ==
    /\ alive = "unconstructed"
    /\ Validate(params) # "ok"
    /\ alive' = "rejected"
    /\ ret' = Returned("init", None, None, FALSE, Validate(params))
    /\ UNCHANGED <<params, attrs, v_max, obs, num_steps,
                   boundary_left, boundary_right, speeds, calls, resets,
                   given, acted, aliased, held>>

-----------------------------------------------------------------------------
(* reset() and step() *)

\* the number of cells step() reads back from the observation
NCells(a) == PyInt(RDiv(a.length, a.dx))

\* self.obs[:int(self.length / self.dx)], the densities step() reads back
Density(o) == PySlice(o, 0, NCells(attrs))

\* the assignments of reset() for the densities rho_init under speed limit vm
Restart(rho_init, v_init, vm) ==
    /\ num_steps' = 0
    /\ v_max' = vm
    /\ speeds' = v_init
    /\ obs' = rho_init \o v_init
    /\ ret' = Returned("reset", rho_init \o v_init, None, FALSE, "none")
    /\ held' = Copy(rho_init \o v_init).array
    /\ aliased' = Copy(rho_init \o v_init).same
    /\ given' = None
    /\ acted' = FALSE
    /\ calls' = 0
    /\ resets' = IF resets < MaxResets THEN resets + 1 ELSE resets
    /\ UNCHANGED <<params, alive, attrs, boundary_left, boundary_right>>

\* a reset that leaves the speed limit of the last action in force
ResetKeepsSpeedLimit ==
    /\ alive = "constructed"
    /\ Restart(attrs.initial_conditions,
               speed_info(attrs.initial_conditions, v_max, attrs.rho_max),
               v_max)

\* a reset that restarts from the current densities once there are some
ResetFromObservation ==
    /\ alive = "constructed"
    /\ Restart(IF obs = None THEN attrs.initial_conditions ELSE Density(obs),
               speed_info(IF obs = None THEN attrs.initial_conditions
                          ELSE Density(obs),
                          attrs.params.v_max, attrs.rho_max),
               attrs.params.v_max)

\* a reset that draws the field it restarts from
ResetDrawsField ==
    /\ alive = "constructed"
    /\ \E rho \in {f \in InitialConditions :
                       Len(f) = Len(attrs.initial_conditions)} :
           Restart(rho, speed_info(rho, attrs.params.v_max, attrs.rho_max),
                   attrs.params.v_max)

\* reset()
Reset ==
    /\ alive = "constructed"
    /\ Restart(attrs.initial_conditions,
               speed_info(attrs.initial_conditions, attrs.params.v_max,
                          attrs.rho_max),
               attrs.params.v_max)

\* the largest denominator one step multiplies into its result: that of the
\* densities times those of the speed limit and of dt/dx
RECURSIVE MaxDenominator(_)
MaxDenominator(rho) ==
    IF rho = <<>> THEN 1
    ELSE LET m == MaxDenominator(Tail(rho))
         IN  IF Head(rho)[2] > m THEN Head(rho)[2] ELSE m

Representable(rho, vm, a) ==
    MaxDenominator(rho) * vm[2] * RDiv(a.dt, a.dx)[2] <= MaxDen

InRange(rho) == \A i \in 1..Len(rho) : Abs(rho[i][1]) <= MaxNum

\* a done mask raised one step late
DoneAfterHorizon(n, horizon) == n > horizon

\* done = self.num_steps >= self.horizon
Done(n, horizon) == n >= horizon

\* a reward that leaves out the density weight
RewardUnweighted(rho, speed, vm) ==
    Mean([i \in 1..Len(rho) |->
            RMul(RSub(speed[i], vm), RSub(speed[i], vm))])

\* np.mean(np.square(speed - self.v_max) * rho)
Reward(rho, speed, vm) ==
    Mean([i \in 1..Len(rho) |->
            RMul(RMul(RSub(speed[i], vm), RSub(speed[i], vm)), rho[i])])

\* the assignments of step() once ibvp and speed_info have returned
Advance(out, speed, vm) ==
    /\ num_steps' = num_steps + 1
    /\ v_max' = vm
    /\ boundary_left' = out.left
    /\ boundary_right' = out.right
    /\ speeds' = speed
    /\ obs' = out.rho \o speed
    /\ ret' = Returned("step", out.rho \o speed, Reward(out.rho, speed, vm),
                       Done(num_steps + 1, attrs.horizon), "none")
    /\ held' = Copy(out.rho \o speed).array
    /\ aliased' = Copy(out.rho \o speed).same

Update(out, vm) ==
    /\ InRange(out.rho)
    /\ Advance(out, speed_info(out.rho, vm, attrs.rho_max), vm)

StepWith(vm) ==
    /\ Representable(Density(obs), vm, attrs)
    /\ Update(ibvp(Density(obs), vm, attrs,
                   boundary_left, boundary_right), vm)

\* the assignments of a step() that reads its action after the update
AdvanceThenAct(out, speed, vm, rl_actions) ==
    /\ num_steps' = num_steps + 1
    /\ v_max' = (IF rl_actions # None THEN rl_actions ELSE vm)
    /\ boundary_left' = out.left
    /\ boundary_right' = out.right
    /\ speeds' = speed
    /\ obs' = out.rho \o speed
    /\ ret' = Returned("step", out.rho \o speed, Reward(out.rho, speed, vm),
                       Done(num_steps + 1, attrs.horizon), "none")
    /\ held' = Copy(out.rho \o speed).array
    /\ aliased' = Copy(out.rho \o speed).same

UpdateThenAct(out, vm, rl_actions) ==
    /\ InRange(out.rho)
    /\ AdvanceThenAct(out, speed_info(out.rho, vm, attrs.rho_max), vm,
                      rl_actions)

StepActsLate(rl_actions) ==
    /\ alive = "constructed"
    /\ num_steps # NoneSteps
    /\ num_steps < MaxSteps
    /\ Representable(Density(obs), v_max, attrs)
    /\ UpdateThenAct(ibvp(Density(obs), v_max, attrs,
                          boundary_left, boundary_right), v_max, rl_actions)
    /\ given' = rl_actions
    /\ acted' = (acted \/ (rl_actions # None /\ rl_actions # v_max))
    /\ calls' = calls + 1
    /\ resets' = 0
    /\ UNCHANGED <<params, alive, attrs>>

\* a step() that also stores its action in self.params
StepStoresAction(rl_actions) ==
    /\ alive = "constructed"
    /\ num_steps # NoneSteps
    /\ num_steps < MaxSteps
    /\ StepWith(IF rl_actions # None THEN rl_actions ELSE v_max)
    /\ given' = rl_actions
    /\ acted' = (acted \/ (rl_actions # None /\ rl_actions # v_max))
    /\ calls' = calls + 1
    /\ resets' = 0
    /\ attrs' = [attrs EXCEPT !.params.v_max =
                     IF rl_actions # None THEN rl_actions ELSE @]
    /\ UNCHANGED <<params, alive>>

\* step(rl_actions) after a reset()
Step(rl_actions) ==
    /\ alive = "constructed"
    /\ num_steps # NoneSteps
    /\ num_steps < MaxSteps
    /\ StepWith(IF rl_actions # None THEN rl_actions ELSE v_max)
    /\ given' = rl_actions
    /\ acted' = (acted \/ (rl_actions # None /\ rl_actions # v_max))
    /\ calls' = calls + 1
    /\ resets' = 0
    /\ UNCHANGED <<params, alive, attrs>>

\* a step() before any reset() that takes its action before it reaches the
\* counter
StepBeforeResetActs ==
    /\ alive = "constructed"
    /\ num_steps = NoneSteps
    /\ \E a \in Actions \ {None} : v_max' = a
    /\ ret' = Returned("step", None, None, FALSE, "TypeError")
    /\ UNCHANGED <<params, alive, attrs, obs, num_steps,
                   boundary_left, boundary_right, speeds, calls, resets,
                   given, acted, aliased, held>>

\* step(rl_actions) before any reset(): self.num_steps is None and the
\* increment raises TypeError before anything is assigned
StepBeforeReset ==
    /\ alive = "constructed"
    /\ num_steps = NoneSteps
    /\ ret' = Returned("step", None, None, FALSE, "TypeError")
    /\ UNCHANGED <<params, alive, attrs, v_max, obs, num_steps,
                   boundary_left, boundary_right, speeds, calls, resets,
                   given, acted, aliased, held>>

\* the values a caller writes into an observation it was handed
Scribble(o) == [i \in 1..Len(o) |-> RAdd(o[i], R(1))]

\* the caller adds 1 to every element of the array the last call returned,
\* once; the write lands in self.obs too when the two are one object
CallerWrites ==
    /\ alive = "constructed"
    /\ held # None
    /\ held = ret.obs
    /\ held' = Scribble(held)
    /\ obs' = IF aliased THEN Scribble(held) ELSE obs
    /\ UNCHANGED <<params, alive, attrs, v_max, num_steps, boundary_left,
                   boundary_right, speeds, ret, calls, resets, given,
                   acted, aliased>>

Next ==
    \/ Construct
    \/ ConstructFails
    \/ Reset
    \/ \E a \in Actions : Step(a)
    \/ StepBeforeReset
    \/ CallerWrites

Spec == Init /\ [][Next]_vars

-----------------------------------------------------------------------------
(* Vocabulary of the properties *)

Constructed == alive = "constructed"
\* the last call was a step() that returned
Stepped == Constructed /\ ret.op = "step" /\ ret.err = "none"
\* the last call was a reset()
WasReset == Constructed /\ ret.op = "reset"
\* this transition is a step() that returns
IsStep == Constructed /\ calls' = calls + 1
\* the density half and the speed half of a returned observation
DensityHalf(o) == SubSeq(o, 1, Len(o) \div 2)
SpeedHalf(o) == SubSeq(o, Len(o) \div 2 + 1, Len(o))
Recognized(b) == IsLoop(b) \/ IsExtend(b) \/ IsConstant(b)

-----------------------------------------------------------------------------
(* C1 *)

\* C1: the k-th step() after a reset() returns done = FALSE while k < H and
\* done = TRUE at k = H, and num_steps equals k after k calls.
HorizonTermination ==
    Stepped =>
        /\ num_steps = calls
        /\ (calls < attrs.horizon => ~ret.done)
        /\ (calls = attrs.horizon => ret.done)

\* the third of three calls under horizon 3 returns done
HorizonReached ==
    /\ Stepped
    /\ attrs.horizon = 3
    /\ calls = 3
    /\ ret.done

-----------------------------------------------------------------------------
(* C2 *)

\* C2: with "loop" boundaries a step() without an action leaves the sum of
\* the N cell densities unchanged.
LoopConservesDensity ==
    [][(IsStep /\ IsLoop(attrs.boundaries) /\ v_max' = v_max)
        => RSum(Density(obs')) = RSum(Density(obs))]_vars

-----------------------------------------------------------------------------
(* C3 *)

\* C3: with {"constant_both": (L, R)} every step() returns a density whose
\* first cell is L and whose last cell is R.
ConstantBoundaryHeld ==
    (Stepped /\ IsConstant(attrs.boundaries)) =>
        /\ DensityHalf(ret.obs)[1] = attrs.boundaries.vals[1]
        /\ DensityHalf(ret.obs)[Len(DensityHalf(ret.obs))]
               = attrs.boundaries.vals[2]

\* a second step under (1, 2) on three cells or more, the interior having moved
ConstantBoundaryTwice ==
    /\ Stepped
    /\ IsConstant(attrs.boundaries)
    /\ attrs.boundaries.vals = <<R(1), R(2)>>
    /\ NCells(attrs) >= 3
    /\ calls = 2
    /\ DensityHalf(ret.obs)[2] # attrs.initial_conditions[2]

-----------------------------------------------------------------------------
(* C4 *)

\* C4: with "loop" boundaries and N >= 2 a step() caches the pre-update last
\* cell as boundary_left and the pre-update second-to-last cell as
\* boundary_right, and returns them as its first and last cell.
LoopCachesPreUpdate ==
    [][(IsStep /\ IsLoop(attrs.boundaries) /\ NCells(attrs) >= 2)
        => /\ boundary_left' = Density(obs)[NCells(attrs)]
           /\ boundary_right' = Density(obs)[NCells(attrs) - 1]
           /\ Density(obs')[1] = boundary_left'
           /\ Density(obs')[NCells(attrs)] = boundary_right']_vars

\* one step on the ramp of four cells: the caches hold cells 4 and 3
LoopWrapOfRamp ==
    /\ Stepped
    /\ IsLoop(attrs.boundaries)
    /\ attrs.initial_conditions = FifthsRamp(4)
    /\ calls = 1
    /\ boundary_left = Rat(4, 5)
    /\ boundary_right = Rat(3, 5)
    /\ ret.obs[1] = Rat(4, 5)
    /\ ret.obs[4] = Rat(3, 5)

-----------------------------------------------------------------------------
(* C5 *)

\* C5: with "extend_both" boundaries a step() leaves boundary_left equal to
\* the returned leftmost cell and boundary_right equal to the returned
\* rightmost cell, both being the edge cells after this step's flux update.
ExtendCachesPostUpdate ==
    [][(IsStep /\ IsExtend(attrs.boundaries))
        => /\ boundary_left' = DensityHalf(ret'.obs)[1]
           /\ boundary_right' =
                  DensityHalf(ret'.obs)[Len(DensityHalf(ret'.obs))]
           /\ boundary_left' = FluxUpdate(Density(obs), v_max', attrs)[1]
           /\ boundary_right' =
                  FluxUpdate(Density(obs), v_max', attrs)[Len(Density(obs))]
      ]_vars

\* a first step whose updated right edge differs from the pre-update one
ExtendEdgeMoved ==
    /\ Stepped
    /\ IsExtend(attrs.boundaries)
    /\ calls = 1
    /\ NCells(attrs) >= 2
    /\ boundary_right # attrs.initial_conditions[NCells(attrs)]
    /\ boundary_right = ret.obs[NCells(attrs)]

-----------------------------------------------------------------------------
(* C6, C7: the configuration invariants, stated one by one *)

LengthDivisible(p) == ~RIsZero(p.dx) /\ IsInteger(RDiv(p.length, p.dx))
TimeDivisible(p) == ~RIsZero(p.dt) /\ IsInteger(RDiv(p.total_time, p.dt))
DensityOrdered(p) == RLe(p.rho_max, p.rho_max_max)
SpeedOrdered(p) == RLe(p.v_max, p.v_max_max)
CourantInUnit(p) == RLe(R(0), p.CFL) /\ RLe(p.CFL, R(1))
\* the bound CFL * dx / v_max exists only for v_max # 0
CourantBoundDefined(p) == ~RIsZero(p.v_max)
AboveCourantBound(p) ==
    CourantBoundDefined(p) /\ RLt(RDiv(RMul(p.CFL, p.dx), p.v_max), p.dt)
AtCourantBound(p) ==
    CourantBoundDefined(p) /\ p.dt = RDiv(RMul(p.CFL, p.dx), p.v_max)
WithinCourantBound(p) == CourantBoundDefined(p) /\ ~AboveCourantBound(p)
CellsMatch(p) ==
    LengthDivisible(p)
    /\ R(Len(p.initial_conditions)) = RDiv(p.length, p.dx)

OtherInvariants(p) ==
    /\ LengthDivisible(p)
    /\ TimeDivisible(p)
    /\ DensityOrdered(p)
    /\ SpeedOrdered(p)
    /\ CourantInUnit(p)
    /\ CellsMatch(p)

NothingCreated ==
    /\ attrs = None
    /\ v_max = None
    /\ obs = None
    /\ num_steps = NoneSteps
    /\ boundary_left = None
    /\ boundary_right = None
    /\ speeds = None

\* C6: construction with dt > CFL*dx/v_max fails with a configuration error,
\* and construction with dt = CFL*dx/v_max, the other invariants holding,
\* succeeds.
CourantBoundInclusive ==
    alive # "unconstructed" =>
        /\ (AboveCourantBound(params) =>
                alive = "rejected" /\ ret.err = "AssertionError")
        /\ ((AtCourantBound(params) /\ OtherInvariants(params)) =>
                alive = "constructed")

\* a model constructed with dt exactly at the bound
ConstructedAtBound ==
    /\ Constructed
    /\ AtCourantBound(params)
    /\ ret.op = "init"

\* C7: construction is rejected exactly when one of the configuration
\* invariants is violated, and a rejected construction has created no state.
RejectedIffInvalid ==
    alive # "unconstructed" =>
        /\ (alive = "rejected") =
               ~(OtherInvariants(params) /\ WithinCourantBound(params))
        /\ (alive = "rejected" => NothingCreated)
        /\ (alive = "constructed" => attrs # None /\ v_max # None)

\* a construction rejected for the length of initial_conditions alone
RejectedForCellsOnly ==
    /\ alive = "rejected"
    /\ ~CellsMatch(params)
    /\ LengthDivisible(params)
    /\ TimeDivisible(params)
    /\ DensityOrdered(params)
    /\ SpeedOrdered(params)
    /\ CourantInUnit(params)
    /\ WithinCourantBound(params)
    /\ NothingCreated

-----------------------------------------------------------------------------
(* C8, C9 *)

\* C8: a reset() that follows a reset() returns the same observation and
\* leaves the model in the same state, the counter at 0 and v_max as
\* configured.
ResetIdempotent ==
    [][(WasReset /\ ret'.op = "reset")
        => /\ ret'.obs = ret.obs
           /\ obs' = obs
           /\ speeds' = speeds
           /\ num_steps = 0 /\ num_steps' = 0
           /\ v_max' = v_max
           /\ v_max' = params.v_max
           /\ boundary_left' = boundary_left
           /\ boundary_right' = boundary_right]_vars

\* a second reset in a row, after earlier steps had set the boundary caches
SecondReset ==
    /\ WasReset
    /\ resets = 2
    /\ boundary_left # None
    /\ ret.obs = obs

\* C9: reset() is accepted in every lifecycle state and always returns the
\* observation of the first reset: initial_conditions followed by their
\* Greenshields speeds under the configured v_max, with the counter at 0 and
\* v_max restored.
ResetRestoresInitial ==
    WasReset =>
        /\ DensityHalf(ret.obs) = params.initial_conditions
        /\ SpeedHalf(ret.obs) =
               [i \in 1..Len(params.initial_conditions) |->
                   Greenshields(params.initial_conditions[i], params.v_max,
                                params.rho_max)]
        /\ obs = ret.obs
        /\ num_steps = 0
        /\ v_max = params.v_max

\* a reset after steps under "loop" that moved the field away from a
\* non-uniform initial_conditions
ResetAfterSteps ==
    /\ WasReset
    /\ IsLoop(attrs.boundaries)
    /\ NCells(attrs) >= 3
    /\ boundary_left # None
    /\ boundary_left # params.initial_conditions[NCells(attrs)]

-----------------------------------------------------------------------------
(* C10 *)

\* C10: under every recognized boundary policy each observation returned by
\* reset() and step() holds N densities followed by N speeds.
ObservationShape ==
    ((Stepped \/ WasReset) /\ Recognized(attrs.boundaries)) =>
        /\ Len(ret.obs) = 2 * NCells(attrs)
        /\ Len(Density(obs)) = NCells(attrs)

-----------------------------------------------------------------------------
(* C11 *)

InUnit(x) == RLe(R(0), x) /\ RLe(x, R(1))
\* the configured densities lie within [0, rho_max]
InitialDensitiesBounded(p) ==
    \A i \in 1..Len(p.initial_conditions) :
        RLe(R(0), p.initial_conditions[i])
        /\ RLe(p.initial_conditions[i], p.rho_max)

\* C11: for initial densities within [0, rho_max] every element of every
\* observation returned by reset() and step() lies within [0, 1], the bounds
\* of observation_space.
ObservationInUnitBox ==
    ((Stepped \/ WasReset) /\ InitialDensitiesBounded(params)) =>
        \A i \in 1..Len(ret.obs) : InUnit(ret.obs[i])

-----------------------------------------------------------------------------
(* C12 *)

\* this transition is the caller overwriting the observation it was handed
\* and had not yet touched
IsCallerWrite ==
    Constructed /\ held # None /\ held = ret.obs /\ ret' = ret /\ held' # held

\* C12: the observation returned by reset() and step() is a copy: when the
\* caller overwrites it, self.obs, self.speeds and every other attribute the
\* later calls compute from stay as they were.
ObservationIsCopy ==
    [][IsCallerWrite
        => /\ held' = Scribble(ret.obs)
           /\ obs' = obs
           /\ obs' = ret.obs
           /\ speeds' = speeds
           /\ v_max' = v_max
           /\ num_steps' = num_steps
           /\ boundary_left' = boundary_left
           /\ boundary_right' = boundary_right
           /\ attrs' = attrs]_vars

\* the caller has overwritten the observation of a second step, which the
\* model still holds unchanged
CallerWroteAfterStep ==
    /\ Stepped
    /\ calls = 2
    /\ held = Scribble(obs)
    /\ ret.obs = obs
    /\ SpeedHalf(obs) = speeds

-----------------------------------------------------------------------------
(* C13 *)

\* C13: a step() on a constructed model that was never reset raises an error
\* and leaves the counter, the observation, v_max, the speeds and the
\* boundary caches as the constructor left them.
StepBeforeResetFails ==
    (Constructed /\ num_steps = NoneSteps) =>
        /\ ret.op \in {"init", "step"}
        /\ (ret.op = "step" => ret.err = "TypeError" /\ ret.obs = None)
        /\ obs = None
        /\ speeds = None
        /\ v_max = params.v_max
        /\ boundary_left = None
        /\ boundary_right = None
        /\ attrs = InitAttrs(params)

\* a step() has failed on a model that was constructed and never reset
SteppedBeforeReset ==
    /\ Constructed
    /\ ret.op = "step"
    /\ ret.err = "TypeError"
    /\ num_steps = NoneSteps
    /\ obs = None
    /\ v_max = params.v_max

-----------------------------------------------------------------------------
(* C14 *)

\* C14: the step counter stays within 0..H: a step() at num_steps = H does
\* not increment it past the horizon.
CounterWithinHorizon ==
    (Constructed /\ num_steps # NoneSteps) =>
        (0 <= num_steps /\ num_steps <= attrs.horizon)

-----------------------------------------------------------------------------
(* C15 *)

\* the sampled densities of [0, rho_max]
DensityGrid(rho_max) ==
    {RDiv(RMul(R(k), rho_max), R(GridSteps)) : k \in 0..GridSteps}
WithinLimit(speed, vmax) == RLe(R(0), speed) /\ RLe(speed, vmax)

\* C15: under the v_max in force in any state, the speed of every density of
\* [0, rho_max] lies within [0, v_max], the speed of density 0 is v_max and
\* the speed of density rho_max is 0; so do the speeds the model holds for
\* its cells of density within [0, rho_max].
SpeedWithinLimit ==
    Constructed =>
        /\ Greenshields(R(0), v_max, attrs.rho_max) = v_max
        /\ Greenshields(attrs.rho_max, v_max, attrs.rho_max) = R(0)
        /\ \A rho \in DensityGrid(attrs.rho_max) :
               WithinLimit(Greenshields(rho, v_max, attrs.rho_max), v_max)
        /\ (obs # None =>
               \A i \in 1..Len(speeds) :
                   (RLe(R(0), obs[i]) /\ RLe(obs[i], attrs.rho_max))
                       => /\ WithinLimit(speeds[i], v_max)
                          /\ (obs[i] = R(0) => speeds[i] = v_max)
                          /\ (obs[i] = attrs.rho_max => speeds[i] = R(0)))

\* a step whose action replaced the configured v_max returned an empty cell
\* at the new limit and a full cell at speed 0
SpeedsUnderNewLimit ==
    /\ Stepped
    /\ given # None
    /\ v_max # params.v_max
    /\ v_max # R(0)
    /\ \E i \in 1..Len(speeds) : obs[i] = R(0) /\ speeds[i] = v_max
    /\ \E i \in 1..Len(speeds) : obs[i] = attrs.rho_max /\ speeds[i] = R(0)

-----------------------------------------------------------------------------
(* C16 *)

\* density * (speed - v_max)^2 of one cell
WeightedGap(density, speed, vmax) ==
    RMul(density, RMul(RSub(speed, vmax), RSub(speed, vmax)))

\* C16: the reward a step() returns is the mean, over the cells of the
\* density it returns, of density_i * (speed_i - v_max)^2, speed_i being the
\* Greenshields speed of density_i under the v_max in force after the step's
\* action; a cell of density 0 contributes 0.
RewardIsWeightedGap ==
    Stepped =>
        LET rho == DensityHalf(ret.obs)
            speed == SpeedHalf(ret.obs)
        IN  /\ (given # None => v_max = given)
            /\ \A i \in 1..Len(rho) :
                   /\ speed[i] = Greenshields(rho[i], v_max, attrs.rho_max)
                   /\ (rho[i] = R(0)
                          => WeightedGap(rho[i], speed[i], v_max) = R(0))
            /\ ret.rew =
                   RDiv(RSum([i \in 1..Len(rho) |->
                                 WeightedGap(rho[i], speed[i], v_max)]),
                        R(Len(rho)))

\* a step under a new speed limit returned a positive reward over a field
\* that holds an empty cell
RewardWithEmptyCell ==
    /\ Stepped
    /\ given # None
    /\ v_max # params.v_max
    /\ NCells(attrs) >= 3
    /\ \E i \in 1..NCells(attrs) : ret.obs[i] = R(0)
    /\ RLt(R(0), ret.rew)

-----------------------------------------------------------------------------
(* C17 *)

\* C17: a step() given an action makes it the v_max before the update, so the
\* returned densities, speeds and reward are those of the new v_max; a step()
\* given None leaves v_max as it was, whether configured or set by an earlier
\* action; reset() puts the configured v_max back.
ActionTakesEffectFirst ==
    [][/\ IsStep =>
            /\ v_max' = (IF given' # None THEN given' ELSE v_max)
            /\ DensityHalf(ret'.obs) =
                   ibvp(Density(obs), v_max', attrs,
                        boundary_left, boundary_right).rho
            /\ SpeedHalf(ret'.obs) =
                   speed_info(DensityHalf(ret'.obs), v_max', attrs.rho_max)
            /\ ret'.rew =
                   Reward(DensityHalf(ret'.obs), SpeedHalf(ret'.obs), v_max')
       /\ (Constructed /\ ret'.op = "reset") => v_max' = params.v_max
       /\ (Constructed /\ ~IsStep /\ ret'.op # "reset") => v_max' = v_max
      ]_vars

\* a step given None ran under the limit an earlier action had set, the
\* field having moved under it
EarlierActionInForce ==
    /\ Stepped
    /\ given = None
    /\ calls = 2
    /\ v_max = R(1)
    /\ params.v_max = Rat(1, 2)
    /\ NCells(attrs) >= 3
    /\ DensityHalf(obs)[2] # params.initial_conditions[2]

-----------------------------------------------------------------------------
(* C18 *)

\* the fundamental diagram of the claim, written per cell
PeakFlow(vmax, rho_max) ==
    RMul(RDiv(rho_max, R(2)), Greenshields(RDiv(rho_max, R(2)), vmax, rho_max))
CellDemand(rho, vmax, rho_max) ==
    IF RLt(rho, RDiv(rho_max, R(2)))
    THEN RMul(rho, Greenshields(rho, vmax, rho_max))
    ELSE PeakFlow(vmax, rho_max)
CellSupply(rho, vmax, rho_max) ==
    IF RLt(RDiv(rho_max, R(2)), rho)
    THEN RMul(rho, Greenshields(rho, vmax, rho_max))
    ELSE PeakFlow(vmax, rho_max)
\* the flux of the density field the model holds, under the v_max in force
CurrentFlux ==
    godunov_flux(Density(obs), v_max, attrs.rho_max, attrs.rho_critical)

\* f holds, for each cell of rho, the smaller of the cell's demand and the
\* supply of the next cell (of the cell itself for the last one)
FluxMatches(rho, f, vmax, rho_max) ==
    /\ Len(f) = Len(rho)
    /\ \A i \in 1..Len(rho) :
           f[i] = RMin(CellDemand(rho[i], vmax, rho_max),
                       CellSupply(rho[IF i < Len(rho) THEN i + 1 ELSE i],
                                  vmax, rho_max))

\* C18: godunov_flux returns one flux per cell: the smaller of the demand of
\* the cell and the supply of its right neighbour, and for the last cell the
\* smaller of its own demand and its own supply.
FluxIsDemandSupplyMin ==
    (Constructed /\ obs # None) =>
        FluxMatches(Density(obs), CurrentFlux, v_max, attrs.rho_max)

\* a stepped field in which a free cell faces a congested right neighbour, so
\* that its flux is the neighbour's supply, below its own demand
FluxLimitedBySupply ==
    /\ Stepped
    /\ v_max # R(0)
    /\ \E i \in 1..(NCells(attrs) - 1) :
           /\ RLt(Density(obs)[i], attrs.rho_critical)
           /\ RLt(attrs.rho_critical, Density(obs)[i + 1])
           /\ CurrentFlux[i] = CellSupply(Density(obs)[i + 1], v_max,
                                      attrs.rho_max)
           /\ RLt(CurrentFlux[i],
                  CellDemand(Density(obs)[i], v_max, attrs.rho_max))

-----------------------------------------------------------------------------
(* C19 *)

\* the finite-volume update of the claim, cell by cell (cells counted from 1)
FiniteVolume(rho, f, step) ==
    Array([i \in 1..Len(rho) |->
              IF i = 1 THEN rho[1]
              ELSE RSub(rho[i], RMul(step, RSub(f[i], f[i - 1])))])
\* the interior cells of the returned array are those of the update
InteriorKept(returned, updated) ==
    /\ Len(returned) = Len(updated)
    /\ \A i \in 2..(Len(updated) - 1) : returned[i] = updated[i]
FluxUnder(vmax) ==
    godunov_flux(Density(obs), vmax, attrs.rho_max, attrs.rho_critical)
\* the update is the expected one and, under a recognized policy on two
\* cells or more, so is the interior of the returned array
UpdateAgrees(expected, updated, returned) ==
    /\ updated = expected
    /\ (Recognized(attrs.boundaries) /\ NCells(attrs) >= 2) =>
           InteriorKept(returned, expected)

\* C19: before any boundary rule ibvp computes new_i = rho_i - (dt/dx) *
\* (f_i - f_(i-1)) for every cell but the first, which keeps its density;
\* under every recognized policy and N >= 2 the returned interior cells are
\* these values, only the first and the last cell being rewritten.
InteriorIsFluxUpdate ==
    [][IsStep =>
          UpdateAgrees(FiniteVolume(Density(obs), FluxUnder(v_max'),
                                    RDiv(attrs.dt, attrs.dx)),
                       FluxUpdate(Density(obs), v_max', attrs),
                       DensityHalf(ret'.obs))]_vars

\* the first step on four cells of a non-uniform field moved both interior
\* cells while a recognized policy rewrote the last one
InteriorMoved ==
    /\ Stepped
    /\ Recognized(attrs.boundaries)
    /\ NCells(attrs) = 4
    /\ calls = 1
    /\ obs[2] # params.initial_conditions[2]
    /\ obs[3] # params.initial_conditions[3]
    /\ obs[2] = FiniteVolume(params.initial_conditions,
                             godunov_flux(params.initial_conditions, v_max,
                                          attrs.rho_max, attrs.rho_critical),
                             RDiv(attrs.dt, attrs.dx))[2]
    /\ obs[4] # FiniteVolume(params.initial_conditions,
                             godunov_flux(params.initial_conditions, v_max,
                                          attrs.rho_max, attrs.rho_critical),
                             RDiv(attrs.dt, attrs.dx))[4]

-----------------------------------------------------------------------------
(* C20 *)

\* C20: a boundary_conditions value that is none of "loop", "extend_both"
\* and {"constant_both": ...} is accepted by the constructor, the other
\* assertions passing, and every step() then applies no boundary rule: it
\* returns the flux update as it is and leaves boundary_left and
\* boundary_right as they were.
UnrecognizedPolicyIsNoRule ==
    [][/\ (alive = "unconstructed" /\ ~Recognized(params.boundary_conditions)
           /\ OtherInvariants(params) /\ WithinCourantBound(params))
          => (alive' = "constructed" /\ ret'.err = "none")
       /\ (IsStep /\ ~Recognized(attrs.boundaries))
          => /\ DensityHalf(ret'.obs) =
                    FluxUpdate(Density(obs), v_max', attrs)
             /\ Density(obs') = FluxUpdate(Density(obs), v_max', attrs)
             /\ boundary_left' = boundary_left
             /\ boundary_right' = boundary_right
             /\ boundary_left' = None
      ]_vars

\* two steps under an unrecognized policy: the caches are still None and the
\* last cell, which no rule rewrote, has moved
SteppedWithoutRule ==
    /\ Stepped
    /\ ~Recognized(attrs.boundaries)
    /\ calls = 2
    /\ NCells(attrs) >= 3
    /\ boundary_left = None
    /\ boundary_right = None
    /\ obs[1] = params.initial_conditions[1]
    /\ obs[NCells(attrs)] # params.initial_conditions[NCells(attrs)]
    /\ Len(ret.obs) = 2 * NCells(attrs)

-----------------------------------------------------------------------------
(* C21 *)

\* the sampled densities above rho_max, up to 2 * rho_max
DensityGridAbove(rho_max) ==
    {RDiv(RMul(R(GridSteps + k), rho_max), R(GridSteps)) : k \in 1..GridSteps}
\* v_max - v_max * density / rho_max
LinearSpeed(density, vmax, rho_max) ==
    RSub(vmax, RDiv(RMul(vmax, density), rho_max))

\* C21: the speed of every density is exactly v_max * (1 - density/rho_max),
\* unclamped: under v_max > 0 every density above rho_max has a negative
\* speed, and the speeds a reset() or step() stored for a field holding such
\* densities are these values.
SpeedIsUnclamped ==
    Constructed =>
        /\ \A rho \in DensityGrid(attrs.rho_max)
                      \cup DensityGridAbove(attrs.rho_max) :
               Greenshields(rho, v_max, attrs.rho_max) =
                   LinearSpeed(rho, v_max, attrs.rho_max)
        /\ \A rho \in DensityGridAbove(attrs.rho_max) :
               RLt(R(0), v_max) =>
                   RLt(Greenshields(rho, v_max, attrs.rho_max), R(0))
        /\ (obs # None =>
               \A i \in 1..Len(speeds) :
                   /\ speeds[i] = LinearSpeed(obs[i], v_max, attrs.rho_max)
                   /\ (RLt(attrs.rho_max, obs[i]) /\ RLt(R(0), v_max))
                          => RLt(speeds[i], R(0)))

\* a step() on a field with a cell above rho_max has returned, the cell still
\* above rho_max and its speed negative
SteppedAboveCapacity ==
    /\ Stepped
    /\ ret.err = "none"
    /\ calls = 2
    /\ RLt(attrs.rho_max, params.initial_conditions[1])
    /\ RLt(R(0), v_max)
    /\ \E i \in 1..Len(speeds) :
           RLt(attrs.rho_max, ret.obs[i])
           /\ RLt(ret.obs[Len(speeds) + i], R(0))

-----------------------------------------------------------------------------
(* C22 *)

\* what a call hands back: observation, reward and done flag
Handed(r) == <<r.obs, r.rew, r.done>>
\* the one result a step() can have, given what ibvp returns under vm
OutcomeOf(out, speed, vm) ==
    <<out.rho \o speed, Reward(out.rho, speed, vm),
      Done(num_steps + 1, attrs.horizon)>>
OutcomeUnder(out, vm) ==
    OutcomeOf(out, speed_info(out.rho, vm, attrs.rho_max), vm)
StepOutcome(vm) ==
    OutcomeUnder(ibvp(Density(obs), vm, attrs, boundary_left, boundary_right),
                 vm)
\* the one result a reset() can have
ResetOutcome ==
    <<attrs.initial_conditions
          \o speed_info(attrs.initial_conditions, attrs.params.v_max,
                        attrs.rho_max),
      None, FALSE>>

-----------------------------------------------------------------------------
(* C23 *)

\* C23: in every state of a constructed model, whatever reset() and step()
\* calls were made, length, dx, rho_max, rho_max_max, v_max_max,
\* rho_critical, CFL, dt, total_time, horizon, initial_conditions, the
\* boundary policy and the stored params are those of the constructor; only
\* v_max moves.
ConfigurationIsFrozen ==
    Constructed =>
        /\ attrs.length = params.length
        /\ attrs.dx = params.dx
        /\ attrs.rho_max = params.rho_max
        /\ attrs.rho_max_max = params.rho_max_max
        /\ attrs.v_max_max = params.v_max_max
        /\ attrs.rho_critical = RDiv(params.rho_max, R(2))
        /\ attrs.CFL = params.CFL
        /\ attrs.dt = params.dt
        /\ attrs.total_time = params.total_time
        /\ attrs.horizon = PyInt(RDiv(params.total_time, params.dt))
        /\ attrs.initial_conditions = params.initial_conditions
        /\ attrs.boundaries = params.boundary_conditions
        /\ attrs.params = params
        /\ DOMAIN attrs = DOMAIN InitAttrs(params)

\* a step() whose action moved v_max, the configuration standing
LimitMoved ==
    /\ Stepped
    /\ given # None
    /\ v_max # params.v_max
    /\ calls = 2
    /\ attrs = InitAttrs(params)

-----------------------------------------------------------------------------
(* C24 *)

InBand(x, rho_max) == RLe(R(0), x) /\ RLe(x, rho_max)
\* the values of a {"constant_both": (L, R)} policy lie within [0, rho_max]
ConstantValuesBounded(p) ==
    IsConstant(p.boundary_conditions) =>
        /\ InBand(p.boundary_conditions.vals[1], p.rho_max)
        /\ InBand(p.boundary_conditions.vals[2], p.rho_max)

\* C24: in a constructed model (so dt <= CFL*dx/v_max) with initial densities
\* and constant boundary values within [0, rho_max], under "loop",
\* "extend_both" or "constant_both", every cell density is within
\* [0, rho_max] after any number of steps as long as no action has changed
\* v_max.
MaximumPrinciple ==
    (Constructed /\ obs # None /\ ~acted
     /\ Recognized(attrs.boundaries)
     /\ InitialDensitiesBounded(params)
     /\ ConstantValuesBounded(params)) =>
        \A i \in 1..Len(speeds) : InBand(obs[i], attrs.rho_max)

\* three steps without an action from a field with an empty and a full cell,
\* the interior having moved
BandKeptOverThreeSteps ==
    /\ Stepped
    /\ ~acted
    /\ calls = 3
    /\ Recognized(attrs.boundaries)
    /\ NCells(attrs) = 4
    /\ params.initial_conditions = MixedField(4)
    /\ obs[2] # params.initial_conditions[2]
    /\ \A i \in 1..Len(speeds) : InBand(obs[i], attrs.rho_max)

-----------------------------------------------------------------------------
(* C25 *)

\* C25: in every reachable state of a constructed model the current v_max
\* satisfies dt * v_max <= CFL * dx, whatever actions from [0, v_max_max]
\* have been taken.
CourantHoldsForLimit ==
    Constructed =>
        RLe(RMul(attrs.dt, v_max), RMul(attrs.CFL, attrs.dx))

-----------------------------------------------------------------------------
(* C26 *)

\* C26: after every reset() and every step(), with N = length / dx the
\* configured number of cells, obs[N + i] is the Greenshields speed of obs[i]
\* under the current v_max for every cell i, and the cached speeds are that
\* speed half of the observation.
SpeedHalfIsGreenshields ==
    (Constructed /\ obs # None) =>
        /\ \A i \in 1..NCells(attrs) :
               obs[NCells(attrs) + i] = Greenshields(obs[i], v_max, attrs.rho_max)
        /\ speeds = SubSeq(obs, NCells(attrs) + 1, Len(obs))

-----------------------------------------------------------------------------
(* C27 *)

\* boundary caches another history could have left, None included
OtherCaches == {None, R(0), R(7)}
\* the density step() returns from the density rho_t, its flux update upd and
\* the caches bl, br
DensityFrom(b, rho_t, upd, bl, br) == ApplyBoundary(b, rho_t, upd, bl, br).rho
SameWhateverCaches(b, rho_t, upd, vm, bl, br) ==
    /\ \A l \in OtherCaches : \A r \in OtherCaches :
           DensityFrom(b, rho_t, upd, l, r) = DensityFrom(b, rho_t, upd, bl, br)
    /\ OutcomeUnder(ApplyBoundary(b, rho_t, upd, None, None), vm)
           = OutcomeUnder(ApplyBoundary(b, rho_t, upd, bl, br), vm)

\* C27: under every boundary policy, what the next step() returns (density
\* and speeds, reward, done flag) is the same whatever values boundary_left
\* and boundary_right hold before the call: it is a function of the current
\* density, the current v_max and the configuration.
StepIgnoresCaches ==
    (Constructed /\ obs # None /\ num_steps < MaxSteps
     /\ Representable(Density(obs), v_max, attrs)) =>
        SameWhateverCaches(attrs.boundaries, Density(obs),
                           FluxUpdate(Density(obs), v_max, attrs), v_max,
                           boundary_left, boundary_right)

\* after a step() of a periodic road the caches hold values that differ from
\* the ghost cells the next step() is about to write
CachesLeftByEarlierStep ==
    /\ Stepped
    /\ calls = 1
    /\ IsLoop(attrs.boundaries)
    /\ NCells(attrs) >= 3
    /\ boundary_left # None
    /\ boundary_left # PyIndex(Density(obs), Len(Density(obs)) - 1)
    /\ boundary_right # PyIndex(Density(obs), Len(Density(obs)) - 2)
    /\ Representable(Density(obs), v_max, attrs)

-----------------------------------------------------------------------------
(* C28 *)

\* the field of n cells that all hold the density c
Level(c, n) == [i \in 1..n |-> c]
IsLevel(rho) == \A i \in 1..Len(rho) : rho[i] = rho[1]
\* one call of ibvp maps the level field to itself
LevelKept(level, vm, a, bl, br) ==
    Representable(level, vm, a) => ibvp(level, vm, a, bl, br).rho = level

\* C28: under "loop" or "extend_both" with N >= 2 a uniform field is a steady
\* state: a model whose initial cells all hold one density holds that
\* density in every cell after any number of steps with any actions, and at
\* every reachable v_max one step maps the uniform field of any reachable
\* cell value to itself.
UniformIsSteady ==
    (Constructed /\ obs # None /\ NCells(attrs) >= 2
     /\ (IsLoop(attrs.boundaries) \/ IsExtend(attrs.boundaries))) =>
        /\ IsLevel(params.initial_conditions)
               => Density(obs) = params.initial_conditions
        /\ LevelKept(Level(obs[1], NCells(attrs)), v_max, attrs,
                     boundary_left, boundary_right)

\* three steps from a uniform field, the last with an action that changed
\* v_max to a value under which the flux is not zero
UniformAfterThreeSteps ==
    /\ Stepped
    /\ calls = 3
    /\ acted
    /\ NCells(attrs) >= 3
    /\ IsLoop(attrs.boundaries) \/ IsExtend(attrs.boundaries)
    /\ IsLevel(params.initial_conditions)
    /\ ~RIsZero(v_max)
    /\ Density(obs) = params.initial_conditions

-----------------------------------------------------------------------------
(* C29 *)

\* C29: under "extend_both", and under a policy ibvp does not recognize, the
\* leftmost cell holds initial_conditions[0] after any number of steps with
\* any actions.
LeftmostCellFixed ==
    (Constructed /\ obs # None
     /\ (IsExtend(attrs.boundaries) \/ ~Recognized(attrs.boundaries))) =>
        obs[1] = params.initial_conditions[1]

\* three steps of an extrapolated road, with an action, whose second cell
\* has moved while the first has not
LeftmostKeptWhileNextMoved ==
    /\ Stepped
    /\ calls = 3
    /\ acted
    /\ IsExtend(attrs.boundaries)
    /\ NCells(attrs) >= 3
    /\ obs[2] # params.initial_conditions[2]
    /\ obs[1] = params.initial_conditions[1]
    /\ ~RIsZero(Flow(obs[1], v_max, attrs.rho_max))

-----------------------------------------------------------------------------
(* C30 *)

\* q_max = rho_max * v_max / 4
FluxCapacity(vmax, rho_max) == RDiv(RMul(rho_max, vmax), R(4))
\* every flux of f lies in [0, q_max]; it is 0 for an empty cell and for a
\* cell whose right neighbour is full
FluxBounded(rho, f, q_max, rho_max) ==
    \A i \in 1..Len(rho) :
        /\ InBand(f[i], q_max)
        /\ RIsZero(rho[i]) => RIsZero(f[i])
        /\ (i < Len(rho) /\ rho[i + 1] = rho_max) => RIsZero(f[i])

\* C30: for a field with all densities within [0, rho_max], under any
\* v_max >= 0, each Godunov flux lies within [0, q_max] with
\* q_max = rho_max * v_max / 4, and the flux is 0 for a cell of density 0 and
\* for a cell whose downstream neighbour has density rho_max.
FluxWithinCapacity ==
    (Constructed /\ obs # None
     /\ \A i \in 1..Len(Density(obs)) :
            InBand(Density(obs)[i], attrs.rho_max)) =>
        FluxBounded(Density(obs), CurrentFlux,
                    FluxCapacity(v_max, attrs.rho_max), attrs.rho_max)

\* a stepped field within [0, rho_max] in which an occupied cell faces a full
\* one and has flux 0, while another cell carries the flux q_max > 0
BlockedAndSaturatedFlux ==
    /\ Stepped
    /\ ~RIsZero(v_max)
    /\ \A i \in 1..Len(Density(obs)) : InBand(Density(obs)[i], attrs.rho_max)
    /\ \E i \in 1..(Len(Density(obs)) - 1) :
           /\ Density(obs)[i + 1] = attrs.rho_max
           /\ ~RIsZero(Density(obs)[i])
           /\ RIsZero(CurrentFlux[i])
    /\ \E j \in 1..Len(Density(obs)) :
           CurrentFlux[j] = FluxCapacity(v_max, attrs.rho_max)

====
